---- MODULE Spec2Model ----
(***************************************************************************)
(* Terrain analysis engine of the geospatial viewer (src/src/lib/          *)
(* geo-math.ts): DEM sampling, elevation profiles and cut/fill volumes.    *)
(*                                                                         *)
(* Numbers.  The code computes in IEEE doubles; the model computes in      *)
(* exact integer / rational arithmetic:                                    *)
(*   - a geographic coordinate (longitude, latitude) is an integer count   *)
(*     of 1/10000 degree (CoordScale), about 11.12 m on the ground; a      *)
(*     projected coordinate is an integer count of projected units;        *)
(*     vertices are multiples of Res so that every interpolated sample     *)
(*     position and every grid-cell center is again an integer;            *)
(*   - an elevation is an integer (metres), a base-plane elevation or a    *)
(*     volume a fraction with an explicit denominator;                     *)
(*   - a distance in kilometres is an integer count of 1/KmScale km, a     *)
(*     distance in metres a count of whole metres.                         *)
(* JavaScript's null / undefined are the "null" / "undef" kinds of an      *)
(* optional value.                                                         *)
(***************************************************************************)
EXTENDS Integers, Sequences, FiniteSets, TLC

VARIABLES dem, call, result

vars == <<dem, call, result>>

----------------------------------------------------------------------------
(* Bounds of the model *)

\* most vertices of a line
MaxVerts == 3
\* largest sample budget ("samples") passed to getProfileFromDem
MaxBudget == 3
\* largest gridSize passed to getVolumeFromDem
MaxGrid == 2

----------------------------------------------------------------------------
(* Arithmetic helpers *)

Abs(x) == IF x < 0 THEN -x ELSE x

Max(a, b) == IF a >= b THEN a ELSE b

Min(a, b) == IF a <= b THEN a ELSE b

RECURSIVE GCD(_, _)
GCD(a, b) == IF b = 0 THEN Abs(a) ELSE GCD(b, a % b)

LCM(a, b) == (a * b) \div GCD(a, b)

RECURSIVE LCMUpTo(_)
LCMUpTo(n) == IF n <= 1 THEN 1 ELSE LCM(n, LCMUpTo(n - 1))

\* Math.ceil(a / b) for a >= 0, b > 0
CeilDiv(a, b) == (a + b - 1) \div b

\* Math.floor(a / b) for b > 0
FloorDiv(a, b) == a \div b

RECURSIVE ISqrtFrom(_, _)
ISqrtFrom(n, x) ==
    LET y == (x + n \div x) \div 2
    IN IF y >= x THEN x ELSE ISqrtFrom(n, y)

\* Math.sqrt, rounded down to the fixed-point resolution (Newton's iteration)
ISqrt(n) == IF n = 0 THEN 0 ELSE ISqrtFrom(n, n)

\* Every vertex coordinate is a multiple of Res: j/n of a difference of two
\* vertices (n <= MaxBudget) and (i + 0.5)/gridSize of one (gridSize <= MaxGrid)
\* are then integers, as exact as the code's doubles are on such inputs.
Res == LCM(LCMUpTo(Max(2, MaxBudget)), 2 * LCMUpTo(MaxGrid))

----------------------------------------------------------------------------
(* Optional values: number | null | undefined *)

Null == [kind |-> "null", v |-> 0]

Undefined == [kind |-> "undef", v |-> 0]

Num(x) == [kind |-> "num", v |-> x]

\* JavaScript's === on two optional values
StrictEq(a, b) == a.kind = b.kind /\ (a.kind = "num" => a.v = b.v)

----------------------------------------------------------------------------
(* DemData (src/types/index.ts), as the raster loader builds it *)

\* the no-data sentinel of the rasters that define one
NoDataSentinel == -9999

\* proj4's forward transform of a projected raster: an affine map that scales
\* and shears, so that the raster's edges are not lines of constant lon/lat
ShearForward(c) == <<2 * c[1] - c[2], 2 * c[2]>>

\* dem.projConverter applied to [lon, lat]
ProjConverter(d, c) == IF d.projConverter = "shear" THEN ShearForward(c) ELSE c

\* A geographic raster (EPSG:4326): no projConverter, bbox = wgs84Bbox.  5 x 5
\* cells of Res x Res, row 0 the northern row, one no-data cell.
DemGeo ==
    [ values |-> << 5, 6, 7, 8, 9,
                    5, 6, 7, 8, 9,
                    4, 5, 9, NoDataSentinel, 8,
                    4, 5, 6, 7, 8,
                    3, 4, 5, 6, 7 >>,
      width |-> 5, height |-> 5,
      bbox |-> << -2 * Res, -2 * Res, 3 * Res, 3 * Res >>,
      wgs84Bbox |-> << -2 * Res, -2 * Res, 3 * Res, 3 * Res >>,
      noDataValue |-> Num(NoDataSentinel),
      projConverter |-> "none" ]

\* A projected raster: bbox in projected units, wgs84Bbox taken from the
\* inverse-projected corners (top-left lon, bottom-right lat, top-right lon,
\* top-left lat), which is not the preimage of bbox.  4 x 4 cells.
DemProj ==
    [ values |-> << 4, 6, 8, 9,
                    3, 5, 7, 8,
                    2, NoDataSentinel, 6, 7,
                    1, 3, 5, 6 >>,
      width |-> 4, height |-> 4,
      bbox |-> << -4 * Res, -4 * Res, 4 * Res, 4 * Res >>,
      wgs84Bbox |-> << -Res, -2 * Res, 3 * Res, 2 * Res >>,
      noDataValue |-> Num(NoDataSentinel),
      projConverter |-> "shear" ]

\* A geographic raster without a GDAL no-data tag (getGDALNoData() is null):
\* flat terrain at one elevation.
DemFlat ==
    [ values |-> [k \in 1 .. 25 |-> 50],
      width |-> 5, height |-> 5,
      bbox |-> << -2 * Res, -2 * Res, 3 * Res, 3 * Res >>,
      wgs84Bbox |-> << -2 * Res, -2 * Res, 3 * Res, 3 * Res >>,
      noDataValue |-> Null,
      projConverter |-> "none" ]

DemSet == {DemGeo, DemProj, DemFlat}

\* A raster whose file gives its pixels no width: bbox has maxX = minX.
DemZeroWidth ==
    [ values |-> << 5, 6, 7, 8 >>,
      width |-> 2, height |-> 2,
      bbox |-> << 0, -2 * Res, 0, 3 * Res >>,
      wgs84Bbox |-> << 0, -2 * Res, 0, 3 * Res >>,
      noDataValue |-> Num(NoDataSentinel),
      projConverter |-> "none" ]

\* A raster whose file gives its pixels no height: bbox has maxY = minY.
DemZeroHeight ==
    [ values |-> << 5, 6, 7, 8 >>,
      width |-> 2, height |-> 2,
      bbox |-> << -2 * Res, 0, 3 * Res, 0 >>,
      wgs84Bbox |-> << -2 * Res, 0, 3 * Res, 0 >>,
      noDataValue |-> Null,
      projConverter |-> "none" ]

\* every raster with width, height >= 1 that the loader can hand over,
\* the degenerate ones included
AnyDemSet == DemSet \cup {DemZeroWidth, DemZeroHeight}

----------------------------------------------------------------------------
(* getElevationFromDem *)

\* a slip of line 101: the western edge of wgs84Bbox is not tested
OutsideWgs84NoWest(lon, lat, d) ==
    \/ lon > d.wgs84Bbox[3]
    \/ lat < d.wgs84Bbox[2]
    \/ lat > d.wgs84Bbox[4]

\* line 101: the point lies outside dem.wgs84Bbox
OutsideWgs84(lon, lat, d) ==
    \/ lon < d.wgs84Bbox[1]
    \/ lon > d.wgs84Bbox[3]
    \/ lat < d.wgs84Bbox[2]
    \/ lat > d.wgs84Bbox[4]

\* a test of line 113 that is half-open: the eastern and the southern edge
\* are outside
OutsideBboxHalfOpen(p, d) ==
    \/ p[1] < d.bbox[1]
    \/ p[1] >= d.bbox[3]
    \/ p[2] <= d.bbox[2]
    \/ p[2] > d.bbox[4]

\* line 113: the projected point lies outside dem.bbox
OutsideBbox(p, d) ==
    \/ p[1] < d.bbox[1]
    \/ p[1] > d.bbox[3]
    \/ p[2] < d.bbox[2]
    \/ p[2] > d.bbox[4]

\* lines 117, 120: px = Math.floor((projX - minX) / (maxX - minX) * width)
PixelX(projX, d) == FloorDiv((projX - d.bbox[1]) * d.width, d.bbox[3] - d.bbox[1])

\* a slip of line 118: Y not flipped, row 0 taken for the southern row
PixelYUnflipped(projY, d) ==
    FloorDiv((projY - d.bbox[2]) * d.height, d.bbox[4] - d.bbox[2])

\* lines 118, 121: py = Math.floor((maxY - projY) / (maxY - minY) * height)
PixelY(projY, d) == FloorDiv((d.bbox[4] - projY) * d.height, d.bbox[4] - d.bbox[2])

\* line 123: the cell indices are outside the raster
OutsideRaster(px, py, d) == px < 0 \/ px >= d.width \/ py < 0 \/ py >= d.height

\* line 128: values[index] of a typed array (undefined past its end)
ValueAt(d, index) ==
    IF index >= 0 /\ index < Len(d.values) THEN Num(d.values[index + 1]) ELSE Undefined

\* line 130 left out: the sentinel is an elevation like any other
IsNoDataNever(elevation, d) == FALSE

\* line 130: elevation === noDataValue
IsNoData(elevation, d) == StrictEq(elevation, d.noDataValue)

\* the converter called at the top of the function, before the test of line
\* 101
ProjCallsEager(outsideWgs84, d) == IF d.projConverter = "none" THEN 0 ELSE 1

\* lines 101-108: the number of calls of dem.projConverter: none when line
\* 102 returns, one at line 107 when the raster has a converter
ProjCalls(outsideWgs84, d) ==
    IF outsideWgs84 \/ d.projConverter = "none" THEN 0 ELSE 1

\* What one call of getElevationFromDem does: r is the value returned,
\* projCalls the number of calls of dem.projConverter, px/py/index the cell
\* resolved (index -1: values was not read).  A bbox of zero width or height
\* makes xPercent or yPercent NaN (0/0): every comparison of line 123 is then
\* false and values[NaN] is undefined.
SampleTrace(lon, lat, d) ==
    IF OutsideWgs84(lon, lat, d)
    THEN [r |-> Null, projCalls |-> ProjCalls(TRUE, d), px |-> -1, py |-> -1,
          index |-> -1, nan |-> FALSE]
    ELSE
      LET p == ProjConverter(d, <<lon, lat>>)
          calls == ProjCalls(FALSE, d)
      IN
      IF OutsideBbox(p, d)
      THEN [r |-> Null, projCalls |-> calls, px |-> -1, py |-> -1, index |-> -1, nan |-> FALSE]
      ELSE
        IF d.bbox[3] = d.bbox[1] \/ d.bbox[4] = d.bbox[2]
        THEN [r |-> IF IsNoData(Undefined, d) THEN Null ELSE Undefined,
              projCalls |-> calls, px |-> -1, py |-> -1, index |-> -1, nan |-> TRUE]
        ELSE
          LET px == PixelX(p[1], d)
              py == PixelY(p[2], d)
          IN
          IF OutsideRaster(px, py, d)
          THEN [r |-> Null, projCalls |-> calls, px |-> px, py |-> py, index |-> -1, nan |-> FALSE]
          ELSE
            LET index == py * d.width + px
                elevation == ValueAt(d, index)
            IN [r |-> IF IsNoData(elevation, d) THEN Null ELSE elevation,
                projCalls |-> calls, px |-> px, py |-> py, index |-> index, nan |-> FALSE]

GetElevationFromDem(lon, lat, d) == SampleTrace(lon, lat, d).r

----------------------------------------------------------------------------
(* haversineDistance, calculateLineDistance *)

\* line 14: radius of the Earth in kilometres
EarthRadiusKm == 6371

\* fixed-point units per kilometre of a distance in kilometres (line 27)
KmScale == 100000

\* line 15: (Math.PI / 180)^2 for one coordinate unit (1/10000 degree), the
\* angle counted in 1e-8 rad: (174.533)^2
RadPerUnitSq == 30462

\* a slip of lines 22-23: a difference in longitude counts only eastward
HaversineAEastward(coords1, coords2) ==
    LET dLat == coords2[2] - coords1[2]
        dLon == Max(coords2[1] - coords1[1], 0)
    IN dLat * dLat + dLon * dLon

\* lines 20-25: a = sin^2(dLat/2) + sin^2(dLon/2) cos(lat1) cos(lat2), in
\* units of (half a coordinate unit)^2.  Over the model's extent (a few
\* thousandths of a degree around the equator) sin x = x and cos x = 1 to
\* within 1e-8, below the fixed-point resolution.
HaversineA(coords1, coords2) ==
    LET dLat == coords2[2] - coords1[2]
        dLon == coords2[1] - coords1[1]
    IN dLat * dLat + dLon * dLon

\* line 26: c = 2 atan2(sqrt(a), sqrt(1 - a)), in 1e-8 rad (2 asin(sqrt a),
\* which is 2 sqrt(a) at this resolution)
CentralAngle(coords1, coords2) == ISqrt(HaversineA(coords1, coords2) * RadPerUnitSq)

\* line 27: R * c, in 1/KmScale km (1e-8 rad * km * KmScale = 1/1000)
HaversineDistance(coords1, coords2) ==
    (EarthRadiusKm * CentralAngle(coords1, coords2)) \div 1000

\* lines 164, 272, 273: kilometres * 1000, in whole metres
KmToMeters(km) == (km * 1000) \div KmScale

RECURSIVE LineDistanceFrom(_, _)
LineDistanceFrom(coordinates, i) ==
    IF i >= Len(coordinates) THEN 0
    ELSE HaversineDistance(coordinates[i], coordinates[i + 1])
            + LineDistanceFrom(coordinates, i + 1)

\* lines 35-41
CalculateLineDistance(coordinates) == LineDistanceFrom(coordinates, 1)

----------------------------------------------------------------------------
(* getProfileFromDem *)

\* line 142 left out: no line is taken for degenerate
IsZeroLengthNever(totalDistanceKm) == FALSE

\* line 142: totalDistanceKm === 0
IsZeroLength(totalDistanceKm) == totalDistanceKm = 0

\* a slip of line 155: Math.max(2, ...) left out
NumSegmentSamplesNoFloor(samples, segmentDist, totalDistanceKm) ==
    IF totalDistanceKm = 0 THEN 0
    ELSE CeilDiv(samples * segmentDist, totalDistanceKm)

\* line 155: Math.max(2, Math.ceil(samples * (segmentDist / totalDistanceKm)));
\* with totalDistanceKm = 0 the quotient is NaN, Math.max gives NaN and the
\* loop of line 157 runs no iteration.
NumSegmentSamples(samples, segmentDist, totalDistanceKm) ==
    IF totalDistanceKm = 0 THEN 0
    ELSE Max(2, CeilDiv(samples * segmentDist, totalDistanceKm))

\* a slip of line 161: the distance restarts at 0 on every segment
SampleDistPerSegment(accumulatedDist, segmentDist, j, n) ==
    (segmentDist * j) \div n

\* a slip of lines 157-161: t runs over [0, 1) instead of (0, 1]
SampleDistFromZero(accumulatedDist, segmentDist, j, n) ==
    accumulatedDist + (segmentDist * (j - 1)) \div n

\* line 161: accumulatedDist + segmentDist * t, with t = j / numSegmentSamples
SampleDist(accumulatedDist, segmentDist, j, n) ==
    accumulatedDist + (segmentDist * j) \div n

\* lines 147-149, 163-165: push the sample unless its elevation is null
PushSample(profile, distance, elev) ==
    IF elev.kind # "null"
    THEN Append(profile, [distance |-> distance, elevation |-> elev])
    ELSE profile

\* lines 157-166: the samples j .. n of one segment.  st.profile is the
\* profile so far, st.attempts every call of getElevationFromDem so far.
RECURSIVE SegmentLoop(_, _, _, _, _, _, _)
SegmentLoop(st, startPoint, endPoint, segmentDist, n, j, d) ==
    IF j > n THEN st
    ELSE
      LET lon == startPoint[1] + ((endPoint[1] - startPoint[1]) * j) \div n
          lat == startPoint[2] + ((endPoint[2] - startPoint[2]) * j) \div n
          sampleDist == SampleDist(st.acc, segmentDist, j, n)
          elev == GetElevationFromDem(lon, lat, d)
      IN SegmentLoop(
           [st EXCEPT !.profile = PushSample(@, KmToMeters(sampleDist), elev),
                      !.attempts = Append(@, [lon |-> lon, lat |-> lat,
                                              dist |-> sampleDist, seg |-> st.seg,
                                              j |-> j, n |-> n, r |-> elev])],
           startPoint, endPoint, segmentDist, n, j + 1, d)

\* lines 151-168: the segments i, i+1, ... of the line
RECURSIVE LineLoop(_, _, _, _, _, _)
LineLoop(st, coords, samples, totalDistanceKm, i, d) ==
    IF i >= Len(coords) THEN st
    ELSE
      LET startPoint == coords[i]
          endPoint == coords[i + 1]
          segmentDist == HaversineDistance(startPoint, endPoint)
          n == NumSegmentSamples(samples, segmentDist, totalDistanceKm)
          after == SegmentLoop([st EXCEPT !.seg = i], startPoint, endPoint,
                               segmentDist, n, 1, d)
      IN LineLoop([after EXCEPT !.acc = @ + segmentDist,
                                !.nan = @ \/ totalDistanceKm = 0],
                  coords, samples, totalDistanceKm, i + 1, d)

\* a slip of line 170: one sample is taken for a profile
EnoughSamplesOne(profile) == Len(profile) > 0

\* line 170: profile.length > 1
EnoughSamples(profile) == Len(profile) > 1

\* lines 137-171.  ret is what the call returns ("null", "profile") or
\* "TypeError" when it throws reading coords[0][0] of an empty line; nan says
\* that a quotient by a zero total length was formed.
GetProfileFromDem(coords, d, samples) ==
    LET totalDistanceKm == CalculateLineDistance(coords)
        none == [ret |-> "null", profile |-> <<>>, attempts |-> <<>>, nan |-> FALSE]
    IN
    IF IsZeroLength(totalDistanceKm) THEN none
    ELSE IF Len(coords) = 0 THEN [none EXCEPT !.ret = "TypeError"]
    ELSE
      LET startElev == GetElevationFromDem(coords[1][1], coords[1][2], d)
          st0 == [profile |-> PushSample(<<>>, 0, startElev),
                  attempts |-> <<[lon |-> coords[1][1], lat |-> coords[1][2],
                                  dist |-> 0, seg |-> 0, j |-> 0, n |-> 0,
                                  r |-> startElev]>>,
                  acc |-> 0, seg |-> 0, nan |-> FALSE]
          st == LineLoop(st0, coords, samples, totalDistanceKm, 1, d)
      IN [ret |-> IF EnoughSamples(st.profile) THEN "profile" ELSE "null",
          profile |-> IF EnoughSamples(st.profile) THEN st.profile ELSE <<>>,
          attempts |-> st.attempts,
          nan |-> st.nan]

----------------------------------------------------------------------------
(* isPointInPolygon, solve3x3 *)

\* lines 179-180: the edge (vs[i], vs[j]) crosses the ray from the point to
\* the east.  x < (xj - xi) * (y - yi) / (yj - yi) + xi, multiplied through
\* by yj - yi (not 0 when the first conjunct holds).
EdgeIntersects(x, y, vi, vj) ==
    LET xi == vi[1]  yi == vi[2]
        xj == vj[1]  yj == vj[2]
    IN /\ (yi > y) # (yj > y)
       /\ IF yj - yi > 0
          THEN (x - xi) * (yj - yi) < (xj - xi) * (y - yi)
          ELSE (x - xi) * (yj - yi) > (xj - xi) * (y - yi)

RECURSIVE RayCast(_, _, _, _, _)
RayCast(x, y, vs, i, inside) ==
    IF i > Len(vs) THEN inside
    ELSE LET j == IF i = 1 THEN Len(vs) ELSE i - 1
         IN RayCast(x, y, vs, i + 1,
                    IF EdgeIntersects(x, y, vs[i], vs[j]) THEN ~inside ELSE inside)

\* a test that is not even-odd: the point is inside when its ray crosses
\* any edge at all
IsPointInPolygonAnyCrossing(point, vs) ==
    \E i \in 1 .. Len(vs) :
        EdgeIntersects(point[1], point[2], vs[i], vs[IF i = 1 THEN Len(vs) ELSE i - 1])

\* lines 173-184
IsPointInPolygon(point, vs) == RayCast(point[1], point[2], vs, 1, FALSE)

\* lines 187-189
Det3(A) ==
    A[1][1] * (A[2][2] * A[3][3] - A[3][2] * A[2][3])
      - A[1][2] * (A[2][1] * A[3][3] - A[2][3] * A[3][1])
      + A[1][3] * (A[2][1] * A[3][2] - A[2][2] * A[3][1])

\* a slip of line 195: the sign of adjA[0][1] is lost
AdjugateSignSlip(A) ==
    << << A[2][2] * A[3][3] - A[3][2] * A[2][3],
          A[1][2] * A[3][3] - A[1][3] * A[3][2],
          A[1][2] * A[2][3] - A[1][3] * A[2][2] >>,
       << -(A[2][1] * A[3][3] - A[2][3] * A[3][1]),
          A[1][1] * A[3][3] - A[1][3] * A[3][1],
          -(A[1][1] * A[2][3] - A[2][1] * A[1][3]) >>,
       << A[2][1] * A[3][2] - A[3][1] * A[2][2],
          -(A[1][1] * A[3][2] - A[3][1] * A[1][2]),
          A[1][1] * A[2][2] - A[2][1] * A[1][2] >> >>

\* lines 194-198
Adjugate(A) ==
    << << A[2][2] * A[3][3] - A[3][2] * A[2][3],
          -(A[1][2] * A[3][3] - A[1][3] * A[3][2]),
          A[1][2] * A[2][3] - A[1][3] * A[2][2] >>,
       << -(A[2][1] * A[3][3] - A[2][3] * A[3][1]),
          A[1][1] * A[3][3] - A[1][3] * A[3][1],
          -(A[1][1] * A[2][3] - A[2][1] * A[1][3]) >>,
       << A[2][1] * A[3][2] - A[3][1] * A[2][2],
          -(A[1][1] * A[3][2] - A[3][1] * A[1][2]),
          A[1][1] * A[2][2] - A[2][1] * A[1][2] >> >>

\* 1e-9 in (coordinate unit)^4.  A geographic raster's coordinates are
\* counted in 1/10000 degree: 1e-9 * 10000^4.  A projected raster's are whole
\* projected units at the least: 1e-9 is below 1, the smallest nonzero
\* determinant of an integer matrix.
DetEpsilon(d) == IF d.projConverter = "none" THEN 10000000 ELSE 1

\* line 191: Math.abs(detA) < 1e-9
IsSingular(detA, d) == Abs(detA) < DetEpsilon(d)

\* lines 186-206: null, or the solution as three numerators over detA
\* (invDetA * (adjA[k] . b))
Solve3x3(A, b, d) ==
    LET detA == Det3(A)
        adjA == Adjugate(A)
    IN IF IsSingular(detA, d)
       THEN [ok |-> FALSE, x |-> <<0, 0, 0>>, det |-> detA]
       ELSE [ok |-> TRUE,
             x |-> [k \in 1 .. 3 |->
                      adjA[k][1] * b[1] + adjA[k][2] * b[2] + adjA[k][3] * b[3]],
             det |-> detA]

----------------------------------------------------------------------------
(* getVolumeFromDem: the base plane *)

\* A base plane: "flat" { elevation: c / den }, "tilted" { a: a / den,
\* b: b / den, c: c / den } with den > 0, "nan" (an elevation that is not a
\* number), or "null" (no plane).
NullPlane == [kind |-> "null", a |-> 0, b |-> 0, c |-> 0, den |-> 1]

NaNPlane == [kind |-> "nan", a |-> 0, b |-> 0, c |-> 0, den |-> 1]

FlatPlane(num, den) == [kind |-> "flat", a |-> 0, b |-> 0, c |-> num, den |-> den]

\* the fraction (a, b, c) / det in lowest terms with a positive denominator
TiltedPlane(a, b, c, det) ==
    LET g == GCD(GCD(GCD(Abs(a), Abs(b)), Abs(c)), Abs(det))
        sgn == IF det < 0 THEN -1 ELSE 1
    IN [kind |-> "tilted", a |-> (sgn * a) \div g, b |-> (sgn * b) \div g,
        c |-> (sgn * c) \div g, den |-> (sgn * det) \div g]

\* lines 223-229: one entry per coordinate of the ring
RingSamples(ring, d) ==
    [k \in 1 .. Len(ring) |->
        [wgs |-> ring[k],
         proj |-> ProjConverter(d, ring[k]),
         elevation |-> GetElevationFromDem(ring[k][1], ring[k][2], d)]]

\* line 230 left out: an unresolved coordinate stays, and its null
\* elevation counts as 0 in the arithmetic that follows
PerimeterPointsNullAsZero(ring, d) ==
    [k \in 1 .. Len(ring) |->
        LET pt == RingSamples(ring, d)[k]
        IN IF pt.elevation.kind = "null" THEN [pt EXCEPT !.elevation = Num(0)] ELSE pt]

\* line 230: .filter(p => p.elevation !== null)
PerimeterPoints(ring, d) ==
    SelectSeq(RingSamples(ring, d), LAMBDA pt : pt.elevation.kind # "null")

RECURSIVE SumOver(_, _)
SumOver(xs, k) ==
    IF k > Len(xs) THEN 0 ELSE xs[k] + SumOver(xs, k + 1)

\* a slip of line 235: Math.max in place of Math.min
RECURSIVE MaxElevation(_, _)
MaxElevation(pts, k) ==
    IF k = Len(pts) THEN pts[k].elevation.v
    ELSE Max(pts[k].elevation.v, MaxElevation(pts, k + 1))

\* line 235: Math.min(...perimeterPoints.map(p => p.elevation!))
RECURSIVE MinElevation(_, _)
MinElevation(pts, k) ==
    IF k = Len(pts) THEN pts[k].elevation.v
    ELSE Min(pts[k].elevation.v, MinElevation(pts, k + 1))

\* a slip of line 235: the first perimeter elevation instead of the least
FirstPoint(pts) == FlatPlane(pts[1].elevation.v, 1)

\* lines 234-236: Math.min(...perimeterPoints.map(p => p.elevation))
LowestPoint(pts) == FlatPlane(MinElevation(pts, 1), 1)

\* a variant of line 238: the closing coordinate of the ring, a repeat of
\* the first, is left out of the mean
AveragePerimeterOpenRing(pts) ==
    FlatPlane(SumOver([q \in 1 .. Len(pts) - 1 |-> pts[q].elevation.v], 1),
              Len(pts) - 1)

\* lines 237-239: the sum of the elevations / perimeterPoints.length
AveragePerimeter(pts) ==
    FlatPlane(SumOver([q \in 1 .. Len(pts) |-> pts[q].elevation.v], 1), Len(pts))

\* lines 243-253: the sums over the perimeter points, as the matrix A and the
\* right-hand side b of the normal equations
NormalEquations(pts) ==
    LET n == Len(pts)
        sumX == SumOver([q \in 1 .. Len(pts) |-> pts[q].proj[1]], 1)
        sumY == SumOver([q \in 1 .. Len(pts) |-> pts[q].proj[2]], 1)
        sumZ == SumOver([q \in 1 .. Len(pts) |-> pts[q].elevation.v], 1)
        sumXY == SumOver([q \in 1 .. Len(pts) |-> pts[q].proj[1] * pts[q].proj[2]], 1)
        sumX2 == SumOver([q \in 1 .. Len(pts) |-> pts[q].proj[1] * pts[q].proj[1]], 1)
        sumY2 == SumOver([q \in 1 .. Len(pts) |-> pts[q].proj[2] * pts[q].proj[2]], 1)
        sumXZ == SumOver([q \in 1 .. Len(pts) |-> pts[q].proj[1] * pts[q].elevation.v], 1)
        sumYZ == SumOver([q \in 1 .. Len(pts) |-> pts[q].proj[2] * pts[q].elevation.v], 1)
    IN [A |-> << <<sumX2, sumXY, sumX>>, <<sumXY, sumY2, sumY>>, <<sumX, sumY, n>> >>,
        b |-> <<sumXZ, sumYZ, sumZ>>]

\* a variant of lines 254-257: a fit that cannot be solved falls back to the
\* plane z = 0 in place of leaving basePlane null
BestFitZeroFallback(pts, d) ==
    LET eq == NormalEquations(pts)
        planeParams == Solve3x3(eq.A, eq.b, d)
    IN IF planeParams.ok
       THEN TiltedPlane(planeParams.x[1], planeParams.x[2], planeParams.x[3],
                        planeParams.det)
       ELSE FlatPlane(0, 1)

\* lines 242-258
BestFit(pts, d) ==
    LET eq == NormalEquations(pts)
        planeParams == Solve3x3(eq.A, eq.b, d)
    IN IF planeParams.ok
       THEN TiltedPlane(planeParams.x[1], planeParams.x[2], planeParams.x[3],
                        planeParams.det)
       ELSE NullPlane

\* What the call of solve3x3 at line 254 did, if it was made: the
\* determinant it computed and whether it went on to 1.0 / detA (line 193).
NotSolved == [called |-> FALSE, det |-> 0, divided |-> FALSE]

SolveTrace(method, pts, d) ==
    IF method # "bestFit" \/ (\E k \in 1 .. Len(pts) : pts[k].elevation.kind = "undef")
    THEN NotSolved
    ELSE LET eq == NormalEquations(pts)
             planeParams == Solve3x3(eq.A, eq.b, d)
         IN [called |-> TRUE, det |-> planeParams.det, divided |-> planeParams.ok]

\* lines 234-258.  An undefined elevation among the perimeter points makes
\* every sum and Math.min NaN.
BasePlane(method, fixedElevation, pts, d) ==
    IF method = "fixedElevation"
    THEN IF fixedElevation.kind = "num" THEN FlatPlane(fixedElevation.v, 1) ELSE NullPlane
    ELSE IF \E k \in 1 .. Len(pts) : pts[k].elevation.kind = "undef" THEN NaNPlane
    ELSE IF method = "lowestPoint" THEN LowestPoint(pts)
    ELSE IF method = "averagePerimeter" THEN AveragePerimeter(pts)
    ELSE IF method = "bestFit" THEN BestFit(pts, d)
    ELSE NullPlane

----------------------------------------------------------------------------
(* getVolumeFromDem: the grid integration *)

\* The geometry of the grid, lines 262-274, for a polygon that carries a
\* bbox.  Steps are exact: the bbox spans multiples of Res.
GridGeometry(bbox, gridSize, d) ==
    LET minLon == bbox[1]  minLat == bbox[2]
        maxLon == bbox[3]  maxLat == bbox[4]
        minProj == ProjConverter(d, <<minLon, minLat>>)
        maxProj == ProjConverter(d, <<maxLon, maxLat>>)
        lonStep == (maxLon - minLon) \div gridSize
        latStep == (maxLat - minLat) \div gridSize
        centerLat == minLat + (maxLat - minLat) \div 2
        cellWidthMeters ==
            KmToMeters(HaversineDistance(<<minLon, centerLat>>,
                                         <<minLon + lonStep, centerLat>>))
        cellHeightMeters ==
            KmToMeters(HaversineDistance(<<minLon, minLat>>,
                                         <<minLon, minLat + latStep>>))
    IN [minLon |-> minLon, minLat |-> minLat,
        lonSpan |-> maxLon - minLon, latSpan |-> maxLat - minLat,
        minProjX |-> minProj[1], minProjY |-> minProj[2],
        projXSpan |-> maxProj[1] - minProj[1], projYSpan |-> maxProj[2] - minProj[2],
        cellArea |-> cellWidthMeters * cellHeightMeters]

\* lines 281-282, 287-288: min + step * (i + 0.5), with step = span / gridSize
CellCenter(min, span, i, gridSize) == min + (span * (2 * i + 1)) \div (2 * gridSize)

\* a slip of line 294: the intercept c of the plane left out
BaseElevationNoIntercept(basePlane, projX, projY) ==
    IF basePlane.kind = "flat" THEN basePlane.c
    ELSE basePlane.a * projX + basePlane.b * projY

\* lines 290-295: the numerator, over basePlane.den, of the base elevation at
\* a cell
BaseElevation(basePlane, projX, projY) ==
    IF basePlane.kind = "flat" THEN basePlane.c
    ELSE basePlane.a * projX + basePlane.b * projY + basePlane.c

\* a slip of line 301: delta, not -delta, is added to the cut
AccumulateSigned(acc, delta, cellArea) ==
    IF delta > 0
    THEN [acc EXCEPT !.fill = @ + delta * cellArea]
    ELSE [acc EXCEPT !.cut = @ + delta * cellArea]

\* lines 297-302: delta = demElevation - baseElevation (numerator over
\* basePlane.den) goes to fill when positive, else -delta to cut
Accumulate(acc, delta, cellArea) ==
    IF delta > 0
    THEN [acc EXCEPT !.fill = @ + delta * cellArea]
    ELSE [acc EXCEPT !.cut = @ + (-delta) * cellArea]

\* line 286 left out: a cell whose sample is null is counted, its null
\* elevation being 0 in demElevation - baseElevation
CountedNullAsZero(inside, demElevation, basePlane) ==
    inside /\ demElevation.kind \in {"num", "null"} /\ basePlane.kind # "nan"

\* a count that depends on the base: under a flat plane only the cells
\* above it are counted
CountedAboveBase(inside, demElevation, basePlane) ==
    /\ inside /\ demElevation.kind = "num" /\ basePlane.kind # "nan"
    /\ basePlane.kind = "flat" => demElevation.v * basePlane.den > basePlane.c

\* lines 284 and 286: the cell is in the polygon and its sample is not null
\* (a sum with a NaN base elevation is NaN, not a volume)
Counted(inside, demElevation, basePlane) ==
    inside /\ demElevation.kind = "num" /\ basePlane.kind # "nan"

\* lines 281-304: one cell of the grid.  acc.cells records, for every cell
\* visited, its center, whether it was in the polygon, the sample taken (or
\* "skip" when none was) and the sums after it.
VisitCell(acc, i, j, geo, gridSize, ring, basePlane, d) ==
    LET lon == CellCenter(geo.minLon, geo.lonSpan, i, gridSize)
        lat == CellCenter(geo.minLat, geo.latSpan, j, gridSize)
        inside == IsPointInPolygon(<<lon, lat>>, ring)
        demElevation == IF inside THEN GetElevationFromDem(lon, lat, d)
                        ELSE [kind |-> "skip", v |-> 0]
        projX == CellCenter(geo.minProjX, geo.projXSpan, i, gridSize)
        projY == CellCenter(geo.minProjY, geo.projYSpan, j, gridSize)
        base == BaseElevation(basePlane, projX, projY)
        counted == Counted(inside, demElevation, basePlane)
        nan == inside /\ (demElevation.kind = "undef"
                           \/ (demElevation.kind = "num" /\ basePlane.kind = "nan"))
        after == IF counted
                 THEN Accumulate(acc, demElevation.v * basePlane.den - base, geo.cellArea)
                 ELSE acc
    IN [after EXCEPT
          !.nan = @ \/ nan,
          !.samples = @ + (IF inside THEN 1 ELSE 0),
          !.cells = Append(@, [i |-> i, j |-> j, lon |-> lon, lat |-> lat,
                               inside |-> inside, elevation |-> demElevation,
                               projX |-> projX, projY |-> projY,
                               base |-> IF counted THEN base ELSE 0,
                               counted |-> counted,
                               cut |-> after.cut, fill |-> after.fill])]

\* lines 279-306: the cells k, k+1, ... in the order of the loops (i outer,
\* j inner)
RECURSIVE GridLoop(_, _, _, _, _, _, _)
GridLoop(acc, k, geo, gridSize, ring, basePlane, d) ==
    IF k >= gridSize * gridSize THEN acc
    ELSE GridLoop(VisitCell(acc, k \div gridSize, k % gridSize, geo, gridSize,
                            ring, basePlane, d),
                  k + 1, geo, gridSize, ring, basePlane, d)

\* the sums before the first cell (lines 276-277)
NoVolume == [cut |-> 0, fill |-> 0, nan |-> FALSE, samples |-> 0, cells |-> <<>>]

\* lines 262-306.  Without polygon.bbox the bounds are [Infinity, Infinity,
\* -Infinity, -Infinity]: every cell center is NaN, isPointInPolygon is false
\* for each of them, no cell is sampled and both sums stay 0 (projConverter
\* is taken to map these bounds to coordinates that are not finite either).
Integrate(polygon, gridSize, basePlane, d) ==
    IF polygon.bbox = <<>> THEN NoVolume
    ELSE GridLoop(NoVolume, 0, GridGeometry(polygon.bbox, gridSize, d), gridSize,
                  polygon.ring, basePlane, d)

\* line 232: perimeterPoints.length < 3
TooFewPerimeterPoints(pts) == Len(pts) < 3

\* a slip of line 311: the operands exchanged
NetCutMinusFill(cutVolume, fillVolume) == cutVolume - fillVolume

\* line 311: net: fillVolume - cutVolume
Net(cutVolume, fillVolume) == fillVolume - cutVolume

\* lines 215-315.  ret is "null" or "result"; cut, fill and net are
\* numerators over basePlane.den (cubic metres); ringSamples, perimeter and
\* cells record the samples taken.
GetVolumeFromDem(polygon, d, method, fixedElevation, gridSize) ==
    LET perimeterPoints == PerimeterPoints(polygon.ring, d)
        none == [ret |-> "null", cut |-> 0, fill |-> 0, net |-> 0,
                 basePlane |-> NullPlane, method |-> method,
                 ringSamples |-> RingSamples(polygon.ring, d),
                 perimeter |-> perimeterPoints,
                 samples |-> Len(polygon.ring), nan |-> FALSE, cells |-> <<>>,
                 solve |-> NotSolved]
    IN
    IF TooFewPerimeterPoints(perimeterPoints) THEN none
    ELSE
      LET basePlane == BasePlane(method, fixedElevation, perimeterPoints, d)
          solve == SolveTrace(method, perimeterPoints, d)
      IN
      IF basePlane.kind = "null" THEN [none EXCEPT !.solve = solve]
      ELSE
        LET sums == Integrate(polygon, gridSize, basePlane, d)
        IN [none EXCEPT !.ret = "result",
                        !.cut = sums.cut, !.fill = sums.fill,
                        !.net = Net(sums.cut, sums.fill),
                        !.basePlane = basePlane,
                        !.samples = @ + sums.samples,
                        !.nan = sums.nan \/ basePlane.kind = "nan",
                        !.cells = sums.cells,
                        !.solve = solve]

----------------------------------------------------------------------------
(* Inputs *)

\* query coordinates of a marker: a lattice finer than the raster cells that
\* reaches past every edge of every raster
QStep == Res \div 4

QCoords == { QStep * k : k \in -10 .. 14 }

\* vertices of drawn lines: inside the rasters (on cells with and without
\* data), on their eastern edge and outside them
LinePoints ==
    { <<0, 0>>, <<Res, 0>>, <<Res, Res>>, <<-Res, -Res>>, <<3 * Res, 0>>, <<4 * Res, Res>> }

\* the lines a user can draw or import: 0 .. MaxVerts vertices
Lines == UNION { [1 .. k -> LinePoints] : k \in 0 .. MaxVerts }

Budgets == 1 .. MaxBudget

\* vertices of drawn polygons: on cells with data, on a no-data cell of the
\* geographic raster, and east of the rasters
PolyPoints == { <<0, 0>>, <<Res, 0>>, <<0, Res>>, <<Res, Res>>, <<3 * Res, 0>> }

\* polygon rings are closed: the first coordinate is repeated at the end
Closed(vertices) == Append(vertices, vertices[1])

SmallSquare == Closed(<< <<0, 0>>, <<Res, 0>>, <<Res, Res>>, <<0, Res>> >>)

BigSquare ==
    Closed(<< <<-Res, -Res>>, <<2 * Res, -Res>>, <<2 * Res, 2 * Res>>, <<-Res, 2 * Res>> >>)

WideQuad ==
    Closed(<< <<-Res, 0>>, <<2 * Res, -Res>>, <<2 * Res, 2 * Res>>, <<0, Res>> >>)

\* three distinct vertices on one parallel
Sliver == Closed(<< <<-Res, 0>>, <<0, 0>>, <<Res, 0>> >>)

\* the outer rings: every closed ring of three vertices (some of them
\* degenerate), three quadrilaterals and a ring of no area
Rings ==
    { Closed(t) : t \in [1 .. 3 -> PolyPoints] }
      \cup {SmallSquare, BigSquare, WideQuad, Sliver}

RECURSIVE MinCoord(_, _, _)
MinCoord(ring, axis, k) ==
    IF k = Len(ring) THEN ring[k][axis] ELSE Min(ring[k][axis], MinCoord(ring, axis, k + 1))

RECURSIVE MaxCoord(_, _, _)
MaxCoord(ring, axis, k) ==
    IF k = Len(ring) THEN ring[k][axis] ELSE Max(ring[k][axis], MaxCoord(ring, axis, k + 1))

\* map-component.tsx line 484: feature.bbox = turf.bbox(feature)
TurfBbox(ring) ==
    << MinCoord(ring, 1, 1), MinCoord(ring, 2, 1), MaxCoord(ring, 1, 1), MaxCoord(ring, 2, 1) >>

\* a polygon feature: drawn (bbox set by onCreateOrUpdate) or imported
\* without one
Polygons ==
    { [ring |-> r, bbox |-> TurfBbox(r)] : r \in Rings }
      \cup { [ring |-> r, bbox |-> <<>>] : r \in Rings }

\* what the volume dialog passes: a method, with an elevation for
\* fixedElevation (or none: options.fixedElevation undefined)
VolumeOptions ==
    { [method |-> m, fixedElevation |-> Undefined] :
        m \in {"lowestPoint", "averagePerimeter", "bestFit", "fixedElevation"} }
      \cup { [method |-> "fixedElevation", fixedElevation |-> Num(e)] : e \in {6, 50} }

GridSizes == 1 .. MaxGrid

----------------------------------------------------------------------------
(* The state machine: a raster is loaded, then the tools call the engine, *)
(* one call at a time; the engine keeps nothing between calls.            *)

Init ==
    /\ dem \in DemSet
    /\ call = [op |-> "none"]
    /\ result = [op |-> "none"]

\* a sampler that writes to the raster it reads: the geographic bounds are
\* overwritten with the projected ones
GetElevationForPointWriting(lon, lat) ==
    /\ call.op = "none"
    /\ call' = [op |-> "sample", lon |-> lon, lat |-> lat]
    /\ result' = [op |-> "sample", trace |-> SampleTrace(lon, lat, dem)]
    /\ dem' = [dem EXCEPT !.wgs84Bbox = dem.bbox]

\* map-component.tsx, tool "marker": getElevationForPoint(lon, lat, dem)
GetElevationForPoint(lon, lat) ==
    /\ call.op = "none"
    /\ call' = [op |-> "sample", lon |-> lon, lat |-> lat]
    /\ result' = [op |-> "sample", trace |-> SampleTrace(lon, lat, dem)]
    /\ UNCHANGED dem

\* map-component.tsx, tool "profile": getProfileFromDem(feature, dem[, samples])
ExtractProfile(line, samples) ==
    /\ call.op = "none"
    /\ call' = [op |-> "profile", line |-> line, samples |-> samples]
    /\ result' = [op |-> "profile", out |-> GetProfileFromDem(line, dem, samples)]
    /\ UNCHANGED dem

\* layout.tsx, handleCalculateVolume: getVolumeFromDem(feature, dem, options)
ComputeVolume(polygon, options, gridSize) ==
    /\ call.op = "none"
    /\ call' = [op |-> "volume", polygon |-> polygon, method |-> options.method,
                fixedElevation |-> options.fixedElevation, gridSize |-> gridSize]
    /\ result' = [op |-> "volume",
                  out |-> GetVolumeFromDem(polygon, dem, options.method,
                                           options.fixedElevation, gridSize)]
    /\ UNCHANGED dem

\* the handler that made the call returns: the tool is idle again
ToolIdle ==
    /\ call.op # "none"
    /\ call' = [op |-> "none"]
    /\ result' = [op |-> "none"]
    /\ UNCHANGED dem

Next ==
    \/ \E lon \in QCoords, lat \in QCoords : GetElevationForPoint(lon, lat)
    \/ \E line \in Lines, samples \in Budgets : ExtractProfile(line, samples)
    \/ \E polygon \in Polygons, options \in VolumeOptions, gridSize \in GridSizes :
          ComputeVolume(polygon, options, gridSize)
    \/ ToolIdle

Spec == Init /\ [][Next]_vars

\* the same tools over any raster, those of a degenerate bbox included
InitAnyRaster ==
    /\ dem \in AnyDemSet
    /\ call = [op |-> "none"]
    /\ result = [op |-> "none"]

SpecAnyRaster == InitAnyRaster /\ [][Next]_vars

----------------------------------------------------------------------------
(* Claims about getElevationFromDem (sample) *)

Sampled == call.op = "sample"

\* the query of the sample call, projected as the raster asks
QueryProj == ProjConverter(dem, <<call.lon, call.lat>>)

QueryOutsideWgs84 ==
    \/ call.lon < dem.wgs84Bbox[1] \/ call.lon > dem.wgs84Bbox[3]
    \/ call.lat < dem.wgs84Bbox[2] \/ call.lat > dem.wgs84Bbox[4]

QueryOutsideBbox ==
    \/ QueryProj[1] < dem.bbox[1] \/ QueryProj[1] > dem.bbox[3]
    \/ QueryProj[2] < dem.bbox[2] \/ QueryProj[2] > dem.bbox[4]

\* C1: a query outside dem.wgs84Bbox, or whose projected position is outside
\* dem.bbox, samples to null and never to an elevation.
C1_OutsideIsNull ==
    (Sampled /\ (QueryOutsideWgs84 \/ QueryOutsideBbox)) => result.trace.r = Null

\* C1 witness: a query inside wgs84Bbox whose projection leaves bbox, and one
\* the sampler answered with null.
C1_Witness ==
    Sampled /\ ~QueryOutsideWgs84 /\ QueryOutsideBbox /\ result.trace.r = Null

\* C2: a query that resolves to a cell holding noDataValue samples to null,
\* and noDataValue itself is never returned as an elevation.
C2_NoDataIsolation ==
    (Sampled /\ dem.noDataValue.kind = "num") =>
        /\ (result.trace.index >= 0
              /\ dem.values[result.trace.index + 1] = dem.noDataValue.v)
             => result.trace.r = Null
        /\ result.trace.r # Num(dem.noDataValue.v)

\* C2 witness: the sampler read a no-data cell and answered null.
C2_Witness ==
    /\ Sampled /\ dem.noDataValue.kind = "num"
    /\ result.trace.index >= 0
    /\ dem.values[result.trace.index + 1] = dem.noDataValue.v
    /\ result.trace.r = Null

\* floor(num / den * n) for den > 0, stated without division: the k with
\* k * den <= num * n < (k + 1) * den
FloorCell(num, den, n) ==
    CHOOSE k \in -1 .. n + 1 : k * den <= num * n /\ num * n < (k + 1) * den

\* col = floor((projX - minX) / (maxX - minX) * width)
QueryCol == FloorCell(QueryProj[1] - dem.bbox[1], dem.bbox[3] - dem.bbox[1], dem.width)

\* row = floor((maxY - projY) / (maxY - minY) * height)
QueryRow == FloorCell(dem.bbox[4] - QueryProj[2], dem.bbox[4] - dem.bbox[2], dem.height)

QueryInRaster ==
    /\ 0 <= QueryCol /\ QueryCol < dem.width
    /\ 0 <= QueryRow /\ QueryRow < dem.height

QueryCellValue == dem.values[QueryRow * dem.width + QueryCol + 1]

\* C3: a query that passes both bounding-box tests returns
\* values[row*width+col] when (col,row) is a cell of the raster and the value
\* is not noDataValue, null when (col,row) is not a cell; and no query of the
\* same longitude further north resolves to a larger row.
C3_NearestCellFlippedY ==
    (Sampled /\ ~QueryOutsideWgs84 /\ ~QueryOutsideBbox) =>
        /\ (QueryInRaster /\ Num(QueryCellValue) # dem.noDataValue)
             => result.trace.r = Num(QueryCellValue)
        /\ ~QueryInRaster => result.trace.r = Null
        /\ \A lat2 \in QCoords :
              LET t2 == SampleTrace(call.lon, lat2, dem)
                  p2 == ProjConverter(dem, <<call.lon, lat2>>)
              IN (p2[2] >= QueryProj[2] /\ t2.py >= 0 /\ result.trace.py >= 0)
                    => t2.py <= result.trace.py

\* C3 witness: a query in the southern half of a raster resolved to a row
\* other than 0 and returned that cell's value.
C3_Witness ==
    /\ Sampled /\ ~QueryOutsideWgs84 /\ ~QueryOutsideBbox /\ QueryInRaster
    /\ QueryRow > 0
    /\ result.trace.r = Num(QueryCellValue)

----------------------------------------------------------------------------
(* Claims about getProfileFromDem (extractProfile) *)

Profiled == call.op = "profile"

ProfileReturned == Profiled /\ result.out.ret = "profile"

\* the calls of the sampler the profile made that gave an elevation, in the
\* order they were made
ResolvedAttempts == SelectSeq(result.out.attempts, LAMBDA a : a.r.kind # "null")

\* C4: the distances of a returned profile are >= 0 and non-decreasing, and
\* its samples are the resolved sample attempts in path order, every one of
\* them kept (no deduplication).
C4_ProfileMonotone ==
    ProfileReturned =>
        LET p == result.out.profile IN
        /\ \A i \in 1 .. Len(p) : p[i].distance >= 0
        /\ \A i \in 1 .. Len(p) - 1 : p[i].distance <= p[i + 1].distance
        /\ Len(p) = Len(ResolvedAttempts)
        /\ \A i \in 1 .. Len(p) :
              /\ p[i].distance = (ResolvedAttempts[i].dist * 1000) \div KmScale
              /\ p[i].elevation = ResolvedAttempts[i].r

\* C4 witness: a profile over two segments that keeps two samples of the same
\* distance and grows strictly elsewhere.
C4_Witness ==
    /\ ProfileReturned /\ Len(call.line) = 3
    /\ \E i \in 1 .. Len(result.out.profile) - 1 :
          result.out.profile[i].distance = result.out.profile[i + 1].distance
    /\ \E i \in 1 .. Len(result.out.profile) - 1 :
          result.out.profile[i].distance < result.out.profile[i + 1].distance
    /\ result.out.profile[1].distance < result.out.profile[3].distance

LastDistance == result.out.profile[Len(result.out.profile)].distance

LineLengthMeters == (CalculateLineDistance(call.line) * 1000) \div KmScale

EndVertexResolves ==
    LET e == call.line[Len(call.line)]
    IN GetElevationFromDem(e[1], e[2], dem).kind # "null"

\* C5 as stated: the last distance of every returned profile is the full
\* length of the line in metres.
C5_LastIsLineLength == ProfileReturned => LastDistance = LineLengthMeters

\* C5 amended: the last distance of a returned profile is at most the length
\* of the line in metres, and equal to it when the line's end vertex resolves
\* to an elevation.
C5_LastIsLineLengthIfEndResolves ==
    ProfileReturned =>
        /\ LastDistance <= LineLengthMeters
        /\ EndVertexResolves => LastDistance = LineLengthMeters

\* C5 witness: a profile over two segments whose end vertex resolved.
C5_Witness ==
    /\ ProfileReturned /\ Len(call.line) = 3 /\ EndVertexResolves
    /\ call.line[1] # call.line[2] /\ call.line[2] # call.line[3]
    /\ LastDistance = LineLengthMeters

\* C6: fewer than 2 resolved sample attempts give null, and a returned
\* profile has at least 2 samples.
C6_InsufficientCoverage ==
    Profiled =>
        /\ Len(ResolvedAttempts) < 2 => result.out.ret = "null"
        /\ result.out.ret = "profile" => Len(result.out.profile) >= 2

\* C6 witness: a line of nonzero length with exactly one resolved attempt,
\* answered with null.
C6_Witness ==
    /\ Profiled /\ CalculateLineDistance(call.line) > 0
    /\ Len(ResolvedAttempts) = 1
    /\ result.out.ret = "null"

\* fewer than 2 coordinates, or all coordinates coincident
DegenerateLine ==
    \/ Len(call.line) < 2
    \/ \A i \in 1 .. Len(call.line) : call.line[i] = call.line[1]

\* C7: a line of zero length gives null, without reading a coordinate that
\* is not there and without dividing by the zero length.
C7_DegenerateLine ==
    (Profiled /\ DegenerateLine) =>
        /\ result.out.ret = "null"
        /\ ~result.out.nan
        /\ result.out.attempts = <<>>

\* C7 witness: the empty line, answered with null.
C7_Witness == Profiled /\ Len(call.line) = 0 /\ result.out.ret = "null"

----------------------------------------------------------------------------
(* Claims about getVolumeFromDem (computeVolume): the base plane *)

Volumed == call.op = "volume"

VolumeReturned == Volumed /\ result.out.ret = "result"

\* the elevation the sampler gives for coordinate k of the outer ring
RingElevation(k) ==
    GetElevationFromDem(call.polygon.ring[k][1], call.polygon.ring[k][2], dem)

\* the coordinates of the outer ring that resolve to an elevation
ResolvedIndices ==
    { k \in 1 .. Len(call.polygon.ring) : RingElevation(k).kind # "null" }

\* the outer ring without the coordinates that do not resolve
ResolvedRing ==
    SelectSeq(call.polygon.ring,
              LAMBDA c : GetElevationFromDem(c[1], c[2], dem).kind # "null")

\* C8: fewer than 3 resolved coordinates of the outer ring give null, and
\* the base plane of a returned result is the one obtained from the resolved
\* coordinates alone (the ring with the unresolved ones removed).
C8_PerimeterCoverage ==
    Volumed =>
        /\ Cardinality(ResolvedIndices) < 3 => result.out.ret = "null"
        /\ result.out.ret = "result" =>
              result.out.basePlane =
                  GetVolumeFromDem([ring |-> ResolvedRing, bbox |-> <<>>], dem,
                                   call.method, call.fixedElevation,
                                   call.gridSize).basePlane

\* C8 witness: a ring of four coordinates of which two resolve, answered
\* with null.
C8_Witness ==
    /\ Volumed /\ call.method = "lowestPoint"
    /\ Len(call.polygon.ring) = 4 /\ Cardinality(ResolvedIndices) = 2
    /\ result.out.ret = "null"

\* C8, second case reached: a result for a ring one of whose coordinates
\* did not resolve.
C8_WitnessPartial ==
    /\ VolumeReturned /\ call.method = "averagePerimeter"
    /\ Cardinality(ResolvedIndices) < Len(call.polygon.ring)

\* C9: with lowestPoint the base plane is flat, at an elevation that is at
\* most every resolved perimeter elevation and equal to one of them.
C9_LowestPoint ==
    (VolumeReturned /\ call.method = "lowestPoint") =>
        LET bp == result.out.basePlane IN
        /\ bp.kind = "flat"
        /\ \A k \in ResolvedIndices : bp.c <= RingElevation(k).v * bp.den
        /\ \E k \in ResolvedIndices : bp.c = RingElevation(k).v * bp.den

\* C9 witness: a lowestPoint result whose first perimeter elevation is not
\* the lowest.
C9_Witness ==
    /\ VolumeReturned /\ call.method = "lowestPoint"
    /\ \E k \in ResolvedIndices :
          RingElevation(k).v < RingElevation(1).v /\ RingElevation(1).kind = "num"

RECURSIVE ResolvedElevationSum(_)
ResolvedElevationSum(k) ==
    IF k = 0 THEN 0
    ELSE (IF RingElevation(k).kind = "null" THEN 0 ELSE RingElevation(k).v)
            + ResolvedElevationSum(k - 1)

\* C10: with averagePerimeter the base plane is flat at the arithmetic mean
\* of the elevations of the ring coordinates as given (the closing coordinate
\* counted like any other), the unresolved ones in neither sum nor count.
C10_AveragePerimeter ==
    (VolumeReturned /\ call.method = "averagePerimeter") =>
        LET bp == result.out.basePlane IN
        /\ bp.kind = "flat"
        /\ bp.c * Cardinality(ResolvedIndices)
              = ResolvedElevationSum(Len(call.polygon.ring)) * bp.den

\* C10 witness: an averagePerimeter result for a closed ring with an
\* unresolved coordinate and perimeter elevations that differ.
C10_Witness ==
    /\ VolumeReturned /\ call.method = "averagePerimeter"
    /\ call.polygon.ring[1] = call.polygon.ring[Len(call.polygon.ring)]
    /\ Cardinality(ResolvedIndices) < Len(call.polygon.ring)
    /\ \E k \in ResolvedIndices : RingElevation(k).v # RingElevation(1).v

----------------------------------------------------------------------------
(* Claims about the best-fit plane *)

\* the projected position of coordinate k of the outer ring
RingProj(k) == ProjConverter(dem, call.polygon.ring[k])

\* twice the signed area of the triangle of three projected ring coordinates
Cross(i, j, k) ==
    (RingProj(j)[1] - RingProj(i)[1]) * (RingProj(k)[2] - RingProj(i)[2])
      - (RingProj(k)[1] - RingProj(i)[1]) * (RingProj(j)[2] - RingProj(i)[2])

\* the resolved coordinates lie on one line (or are fewer than 3 distinct):
\* exactly the rings whose normal-equations matrix has determinant 0
ResolvedCollinear ==
    \A i \in ResolvedIndices, j \in ResolvedIndices, k \in ResolvedIndices :
        Cross(i, j, k) = 0

BestFitAttempted ==
    Volumed /\ call.method = "bestFit" /\ Cardinality(ResolvedIndices) >= 3

\* C11: a bestFit call whose resolved perimeter samples are collinear (the
\* normal-equations matrix is singular) returns null, the determinant
\* solve3x3 computed is 0 and 1.0 / detA is not evaluated; and whenever the
\* determinant computed is 0 the call returns null without that division.
C11_DegenerateFit ==
    BestFitAttempted =>
        /\ ResolvedCollinear =>
              /\ result.out.ret = "null"
              /\ result.out.solve.called
              /\ result.out.solve.det = 0
              /\ ~result.out.solve.divided
        /\ (result.out.solve.called /\ result.out.solve.det = 0) =>
              (result.out.ret = "null" /\ ~result.out.solve.divided)

\* C11 witness: a bestFit call on a ring of three distinct resolved vertices
\* on one line, answered with null.
C11_Witness ==
    /\ BestFitAttempted /\ ResolvedCollinear
    /\ Cardinality({ RingProj(k) : k \in ResolvedIndices }) >= 3
    /\ result.out.ret = "null"

\* C12: a bestFit call on a ring with three resolved coordinates that are not
\* on one line returns a result with a tilted base plane, on every raster
\* (whatever the unit and size of its coordinates).
C12_NonCollinearIsTilted ==
    (BestFitAttempted /\ ~ResolvedCollinear) =>
        (result.out.ret = "result" /\ result.out.basePlane.kind = "tilted")

----------------------------------------------------------------------------
(* Claims about the grid integration *)

\* C13: in every returned result net is fill - cut, both of them numbers.
C13_NetIsFillMinusCut ==
    VolumeReturned =>
        /\ ~result.out.nan
        /\ result.out.net = result.out.fill - result.out.cut
        /\ result.out.net + result.out.cut = result.out.fill

\* C13 witness: a result with cut and fill both positive and different.
C13_Witness ==
    /\ VolumeReturned
    /\ result.out.cut > 0 /\ result.out.fill > 0
    /\ result.out.cut # result.out.fill

\* the cells of the grid in the order visited, as recorded by the call
Cells == result.out.cells

\* the sums before cell k was visited
CutBefore(k) == IF k = 1 THEN 0 ELSE Cells[k - 1].cut

FillBefore(k) == IF k = 1 THEN 0 ELSE Cells[k - 1].fill

\* demElevation - baseElevation at cell k, as a numerator over basePlane.den
Delta(k) == Cells[k].elevation.v * result.out.basePlane.den - Cells[k].base

\* the area of a cell: the metres between two cell centers along the center
\* parallel times the metres between two along a meridian, from the bbox
SharedCellArea ==
    LET b == call.polygon.bbox
        g == call.gridSize
        midLat == b[2] + (b[4] - b[2]) \div 2
    IN KmToMeters(HaversineDistance(<<b[1], midLat>>, <<b[1] + (b[3] - b[1]) \div g, midLat>>))
         * KmToMeters(HaversineDistance(<<b[1], b[2]>>, <<b[1], b[2] + (b[4] - b[2]) \div g>>))

\* C14: every counted cell adds delta * cellArea to fill alone when delta is
\* positive and -delta * cellArea to cut alone otherwise, with the same
\* cellArea for every cell; an uncounted cell adds nothing; both sums are
\* >= 0 after every cell, and the result returns the sums after the last.
C14_CutFillExclusive ==
    VolumeReturned =>
        /\ result.out.cut >= 0 /\ result.out.fill >= 0
        /\ Cells = <<>> => (result.out.cut = 0 /\ result.out.fill = 0)
        /\ Cells # <<>> =>
              /\ result.out.cut = Cells[Len(Cells)].cut
              /\ result.out.fill = Cells[Len(Cells)].fill
              /\ SharedCellArea >= 0
        /\ \A k \in 1 .. Len(Cells) :
              /\ Cells[k].cut >= 0 /\ Cells[k].fill >= 0
              /\ ~Cells[k].counted =>
                    (Cells[k].cut = CutBefore(k) /\ Cells[k].fill = FillBefore(k))
              /\ (Cells[k].counted /\ Delta(k) > 0) =>
                    /\ Cells[k].fill = FillBefore(k) + Delta(k) * SharedCellArea
                    /\ Cells[k].cut = CutBefore(k)
              /\ (Cells[k].counted /\ Delta(k) <= 0) =>
                    /\ Cells[k].cut = CutBefore(k) + (-Delta(k)) * SharedCellArea
                    /\ Cells[k].fill = FillBefore(k)

\* C14 witness: a result in which one counted cell raised the fill and a
\* later one raised the cut.
C14_Witness ==
    /\ VolumeReturned
    /\ \E k \in 1 .. Len(Cells), m \in 1 .. Len(Cells) :
          /\ k < m
          /\ Cells[k].counted /\ Cells[k].fill > FillBefore(k)
          /\ Cells[m].counted /\ Cells[m].cut > CutBefore(m)

\* the sum, over the cells up to k whose center is in the polygon and
\* resolves, of the cut (sign -1) or fill (sign 1) each adds
RECURSIVE ResolvedCellSum(_, _)
ResolvedCellSum(k, sign) ==
    IF k = 0 THEN 0
    ELSE ResolvedCellSum(k - 1, sign)
           + (IF Cells[k].inside /\ Cells[k].elevation.kind = "num"
                 /\ sign * Delta(k) > 0
              THEN sign * Delta(k) * SharedCellArea
              ELSE 0)

SomeRingCoordinateUnresolved ==
    Cardinality(ResolvedIndices) < Len(call.polygon.ring)

\* C15: a cell whose center is in the polygon and does not resolve changes
\* neither sum, and cut and fill are the sums over the resolved cells alone;
\* the base plane is the one of the resolved ring coordinates alone, and
\* when a ring coordinate is unresolved it is not the plane obtained with
\* an elevation of 0 in its place (0 for lowestPoint, the sum over the
\* number of all ring coordinates for averagePerimeter).
C15_MissingDataSkipped ==
    VolumeReturned =>
        /\ \A k \in 1 .. Len(Cells) :
              (Cells[k].inside /\ Cells[k].elevation.kind = "null") =>
                  /\ ~Cells[k].counted
                  /\ Cells[k].cut = CutBefore(k)
                  /\ Cells[k].fill = FillBefore(k)
        /\ result.out.cut = ResolvedCellSum(Len(Cells), -1)
        /\ result.out.fill = ResolvedCellSum(Len(Cells), 1)
        /\ result.out.basePlane =
              BasePlane(call.method, call.fixedElevation,
                        [k \in 1 .. Len(ResolvedRing) |->
                            [wgs |-> ResolvedRing[k],
                             proj |-> ProjConverter(dem, ResolvedRing[k]),
                             elevation |-> GetElevationFromDem(ResolvedRing[k][1],
                                                               ResolvedRing[k][2], dem)]],
                        dem)
        /\ (SomeRingCoordinateUnresolved /\ call.method = "lowestPoint") =>
              result.out.basePlane.c > 0
        /\ (SomeRingCoordinateUnresolved /\ call.method = "averagePerimeter") =>
              result.out.basePlane.c * Len(call.polygon.ring)
                 # ResolvedElevationSum(Len(call.polygon.ring)) * result.out.basePlane.den

\* C15 witness: a result for a ring with an unresolved coordinate and a grid
\* with a cell in the polygon that did not resolve, below a base elevation
\* above 0, next to cells that were counted.
C15_Witness ==
    /\ VolumeReturned /\ SomeRingCoordinateUnresolved
    /\ call.method = "lowestPoint"
    /\ result.out.basePlane.c > 0
    /\ \E k \in 1 .. Len(Cells) : Cells[k].inside /\ Cells[k].elevation.kind = "null"
    /\ \E k \in 1 .. Len(Cells) : Cells[k].counted
    /\ SharedCellArea > 0

----------------------------------------------------------------------------
(* Claims about volumes on particular terrains *)

\* the elevation of the first ring coordinate that resolves
FirstRingElevation ==
    RingElevation(CHOOSE k \in ResolvedIndices : \A m \in ResolvedIndices : k <= m).v

\* every resolved ring coordinate and every resolved cell center in the
\* polygon has the elevation e
TerrainIsFlatAt(e) ==
    /\ \A k \in ResolvedIndices : RingElevation(k).v = e
    /\ \A k \in 1 .. Len(Cells) :
          (Cells[k].inside /\ Cells[k].elevation.kind = "num") => Cells[k].elevation.v = e

\* C16: on terrain of one elevation E under the polygon, a result of any of
\* the four methods (fixedElevation given E) has base elevation E at every
\* counted cell and cut = fill = net = 0.
C16_FlatTerrain ==
    (/\ VolumeReturned
     /\ TerrainIsFlatAt(FirstRingElevation)
     /\ call.method = "fixedElevation" => call.fixedElevation.v = FirstRingElevation)
    =>
        /\ result.out.cut = 0 /\ result.out.fill = 0 /\ result.out.net = 0
        /\ \A k \in 1 .. Len(Cells) :
              Cells[k].counted =>
                  Cells[k].base = FirstRingElevation * result.out.basePlane.den

\* C16 witness: a bestFit result on flat terrain with a counted cell.
C16_Witness ==
    /\ VolumeReturned /\ call.method = "bestFit"
    /\ TerrainIsFlatAt(FirstRingElevation)
    /\ \E k \in 1 .. Len(Cells) : Cells[k].counted

\* C16, the other methods reached: results on flat terrain with counted
\* cells for lowestPoint, averagePerimeter and fixedElevation at E.
C16_WitnessFlatMethods ==
    /\ VolumeReturned /\ call.method \in {"lowestPoint", "averagePerimeter", "fixedElevation"}
    /\ TerrainIsFlatAt(FirstRingElevation)
    /\ call.method = "fixedElevation" => call.fixedElevation.v = FirstRingElevation
    /\ \E k \in 1 .. Len(Cells) : Cells[k].counted

\* the least elevation among the resolved ring coordinates
MinRingElevation ==
    CHOOSE e \in { RingElevation(k).v : k \in ResolvedIndices } :
        \A k \in ResolvedIndices : e <= RingElevation(k).v

\* C17: a lowestPoint result whose counted cells are all at or above the
\* least perimeter elevation, one of them strictly above, has fill > 0 and
\* cut = 0.
C17_Mound ==
    (/\ VolumeReturned /\ call.method = "lowestPoint"
     /\ \A k \in 1 .. Len(Cells) :
           Cells[k].counted => Cells[k].elevation.v >= MinRingElevation
     /\ \E k \in 1 .. Len(Cells) :
           Cells[k].counted /\ Cells[k].elevation.v > MinRingElevation)
    => (result.out.fill > 0 /\ result.out.cut = 0)

\* C17 witness: a lowestPoint result with two counted cells, one above and
\* one at the least perimeter elevation, none below.
C17_Witness ==
    /\ VolumeReturned /\ call.method = "lowestPoint"
    /\ \A k \in 1 .. Len(Cells) :
          Cells[k].counted => Cells[k].elevation.v >= MinRingElevation
    /\ \E k \in 1 .. Len(Cells) :
          Cells[k].counted /\ Cells[k].elevation.v > MinRingElevation
    /\ \E k \in 1 .. Len(Cells) :
          Cells[k].counted /\ Cells[k].elevation.v = MinRingElevation

----------------------------------------------------------------------------
(* Claims about the arguments of getVolumeFromDem *)

\* C18: a call for a polygon without bbox returns what the call for the same
\* ring with the ring's bounding box as polygon.bbox returns: the same
\* outcome, cut, fill and net.
C18_BboxFromRing ==
    (Volumed /\ call.polygon.bbox = <<>>) =>
        LET withBbox ==
                GetVolumeFromDem([ring |-> call.polygon.ring,
                                  bbox |-> TurfBbox(call.polygon.ring)],
                                 dem, call.method, call.fixedElevation, call.gridSize)
        IN /\ result.out.ret = withBbox.ret
           /\ result.out.cut = withBbox.cut
           /\ result.out.fill = withBbox.fill
           /\ result.out.net = withBbox.net

----------------------------------------------------------------------------
(* Claims about the reporting of failures *)

\* what the caller of getProfileFromDem receives
ProfileValue(out) == IF out.ret = "null" THEN Null ELSE [profile |-> out.profile]

\* what the caller of getVolumeFromDem receives
VolumeValue(out) ==
    IF out.ret = "null" THEN Null
    ELSE [cut |-> out.cut, fill |-> out.fill, net |-> out.net,
          basePlane |-> out.basePlane, method |-> out.method]

\* a line of two coincident vertices: a failure of the kind DegenerateLine
PointLine == << <<0, 0>>, <<0, 0>> >>

\* a ring without coordinates: a failure of the kind InsufficientCoverage
EmptyPolygon == [ring |-> <<>>, bbox |-> <<>>]

\* C20: the value a failed call returns tells the kind of the failure: a
\* profile that fails for lack of coverage returns a value other than the
\* one a degenerate line returns, and a volume that fails in the base plane
\* (degenerate fit, missing fixedElevation) returns a value other than the
\* one a perimeter of fewer than 3 resolved coordinates returns.
C20_FailuresDistinguishable ==
    /\ (Profiled /\ result.out.ret = "null" /\ ~DegenerateLine) =>
          ProfileValue(result.out)
             # ProfileValue(GetProfileFromDem(PointLine, dem, call.samples))
    /\ (Volumed /\ result.out.ret = "null" /\ Cardinality(ResolvedIndices) >= 3) =>
          VolumeValue(result.out)
             # VolumeValue(GetVolumeFromDem(EmptyPolygon, dem, call.method,
                                            call.fixedElevation, call.gridSize))

----------------------------------------------------------------------------
(* Claims about the engine as a whole *)

\* what a call returns is what its inputs and the raster determine
ResultOfInputs ==
    /\ call.op = "sample" =>
          result = [op |-> "sample", trace |-> SampleTrace(call.lon, call.lat, dem)]
    /\ call.op = "profile" =>
          result = [op |-> "profile",
                    out |-> GetProfileFromDem(call.line, dem, call.samples)]
    /\ call.op = "volume" =>
          result = [op |-> "volume",
                    out |-> GetVolumeFromDem(call.polygon, dem, call.method,
                                             call.fixedElevation, call.gridSize)]

----------------------------------------------------------------------------
(* Further claims about getElevationFromDem *)

\* C22: a sample call for a query outside dem.wgs84Bbox does not call
\* dem.projConverter; any other call calls it once when the raster has a
\* converter, and no call calls it more than once.
C22_EarlyRejection ==
    Sampled =>
        /\ QueryOutsideWgs84 => result.trace.projCalls = 0
        /\ result.trace.projCalls <= 1
        /\ (~QueryOutsideWgs84 /\ dem.projConverter # "none") =>
              result.trace.projCalls = 1
        /\ dem.projConverter = "none" => result.trace.projCalls = 0

\* C22 witness: a query outside wgs84Bbox of a raster with a converter,
\* whose projected position is inside dem.bbox.
C22_Witness ==
    /\ Sampled /\ dem.projConverter # "none"
    /\ QueryOutsideWgs84 /\ ~QueryOutsideBbox
    /\ result.trace.projCalls = 0

----------------------------------------------------------------------------
(* Claims about haversineDistance and calculateLineDistance *)

RECURSIVE Reversed(_)
Reversed(seq) ==
    IF seq = <<>> THEN <<>> ELSE Append(Reversed(Tail(seq)), Head(seq))

----------------------------------------------------------------------------
(* Further claims about getProfileFromDem *)

Attempts == result.out.attempts

SegmentLength(k) == HaversineDistance(call.line[k], call.line[k + 1])

\* the length of the segments before segment k
RECURSIVE LengthBefore(_)
LengthBefore(k) == IF k <= 1 THEN 0 ELSE LengthBefore(k - 1) + SegmentLength(k - 1)

TotalLength == LengthBefore(Len(call.line))

\* max(2, ceil(sampleBudget * segmentLength / totalLength)): the least n >= 2
\* with n * totalLength >= sampleBudget * segmentLength
AllocatedSamples(k) ==
    CHOOSE n \in 2 .. MaxBudget + 2 :
        /\ n * TotalLength >= call.samples * SegmentLength(k)
        /\ n > 2 => (n - 1) * TotalLength < call.samples * SegmentLength(k)

\* the number of attempts before those of segment k
RECURSIVE AttemptsBefore(_)
AttemptsBefore(k) == IF k <= 1 THEN 1 ELSE AttemptsBefore(k - 1) + AllocatedSamples(k - 1)

\* C24: for a line of nonzero length the attempts are: one at the start
\* vertex at distance 0, then for each segment k in order n attempts, n =
\* max(2, ceil(budget * segmentLength / totalLength)), the j-th at the
\* fraction j / n of the segment and at the distance of the preceding
\* segments plus segmentLength * j / n; the n-th is at the vertex ending the
\* segment; the profile has at most as many samples as there are attempts.
C24_SampleAllocation ==
    (Profiled /\ ~DegenerateLine) =>
        /\ Len(Attempts) = AttemptsBefore(Len(call.line))
        /\ Attempts[1].lon = call.line[1][1] /\ Attempts[1].lat = call.line[1][2]
        /\ Attempts[1].dist = 0
        /\ \A k \in 1 .. Len(call.line) - 1 :
              LET n == AllocatedSamples(k) IN
              /\ \A j \in 1 .. n :
                    LET a == Attempts[AttemptsBefore(k) + j] IN
                    /\ a.seg = k /\ a.j = j /\ a.n = n
                    /\ (a.lon - call.line[k][1]) * n
                          = (call.line[k + 1][1] - call.line[k][1]) * j
                    /\ (a.lat - call.line[k][2]) * n
                          = (call.line[k + 1][2] - call.line[k][2]) * j
                    /\ a.dist = LengthBefore(k) + (SegmentLength(k) * j) \div n
              /\ Attempts[AttemptsBefore(k) + n].lon = call.line[k + 1][1]
              /\ Attempts[AttemptsBefore(k) + n].lat = call.line[k + 1][2]
        /\ Len(result.out.profile) <= AttemptsBefore(Len(call.line))

\* C24 witness: a line of two segments, one sampled twice (the floor of 2)
\* and the other three times.
C24_Witness ==
    /\ Profiled /\ ~DegenerateLine /\ Len(call.line) = 3
    /\ AllocatedSamples(1) = 2 /\ AllocatedSamples(2) = 3
    /\ call.samples * SegmentLength(1) < TotalLength
    /\ Len(Attempts) = 6

----------------------------------------------------------------------------
(* Further claims about the best-fit plane *)

\* the sum, over the resolved ring coordinates up to k, of
\* x^px * y^py * z^pz (exponents 0, 1 or 2), x and y projected
RECURSIVE Moment(_, _, _, _)
Moment(k, px, py, pz) ==
    IF k = 0 THEN 0
    ELSE Moment(k - 1, px, py, pz)
           + (IF RingElevation(k).kind = "null" THEN 0
              ELSE (IF px = 0 THEN 1 ELSE IF px = 1 THEN RingProj(k)[1]
                                  ELSE RingProj(k)[1] * RingProj(k)[1])
                 * (IF py = 0 THEN 1 ELSE IF py = 1 THEN RingProj(k)[2]
                                  ELSE RingProj(k)[2] * RingProj(k)[2])
                 * (IF pz = 0 THEN 1 ELSE RingElevation(k).v))

RingMoment(px, py, pz) == Moment(Len(call.polygon.ring), px, py, pz)

\* C25: the plane (a, b, c) / den of a bestFit result satisfies the three
\* normal equations of the resolved perimeter samples, and when these
\* samples are at three distinct positions (so that they lie on one plane)
\* the plane passes through every one of them.
C25_BestFitSolution ==
    (VolumeReturned /\ call.method = "bestFit") =>
        LET bp == result.out.basePlane IN
        /\ bp.kind = "tilted" /\ bp.den > 0
        /\ RingMoment(2, 0, 0) * bp.a + RingMoment(1, 1, 0) * bp.b
              + RingMoment(1, 0, 0) * bp.c = RingMoment(1, 0, 1) * bp.den
        /\ RingMoment(1, 1, 0) * bp.a + RingMoment(0, 2, 0) * bp.b
              + RingMoment(0, 1, 0) * bp.c = RingMoment(0, 1, 1) * bp.den
        /\ RingMoment(1, 0, 0) * bp.a + RingMoment(0, 1, 0) * bp.b
              + RingMoment(0, 0, 0) * bp.c = RingMoment(0, 0, 1) * bp.den
        /\ Cardinality({ RingProj(k) : k \in ResolvedIndices }) = 3 =>
              \A k \in ResolvedIndices :
                  bp.a * RingProj(k)[1] + bp.b * RingProj(k)[2] + bp.c
                     = RingElevation(k).v * bp.den

\* C25 witness: a bestFit result with a plane that is not level, through
\* the three distinct positions of a triangle.
C25_Witness ==
    /\ VolumeReturned /\ call.method = "bestFit"
    /\ Cardinality({ RingProj(k) : k \in ResolvedIndices }) = 3
    /\ result.out.basePlane.a # 0 /\ result.out.basePlane.b # 0

\* C25, the overdetermined case reached: a bestFit result for four
\* distinct positions that are not on one plane.
C25_WitnessLeastSquares ==
    /\ VolumeReturned /\ call.method = "bestFit"
    /\ Cardinality({ RingProj(k) : k \in ResolvedIndices }) = 4
    /\ \E k \in ResolvedIndices :
          result.out.basePlane.a * RingProj(k)[1] + result.out.basePlane.b * RingProj(k)[2]
             + result.out.basePlane.c # RingElevation(k).v * result.out.basePlane.den

----------------------------------------------------------------------------
(* Further claims about the grid integration *)

\* dem.projConverter applied to the center of the cell Cells[k]
CellCenterProj(k) == ProjConverter(dem, <<Cells[k].lon, Cells[k].lat>>)

\* C26: under a tilted base plane the base elevation of every counted cell
\* is a*X + b*Y + c at (X, Y) = projConverter of the cell's center.
C26_BaseAtProjectedCenter ==
    (VolumeReturned /\ result.out.basePlane.kind = "tilted") =>
        \A k \in 1 .. Len(Cells) :
            Cells[k].counted =>
                Cells[k].base = result.out.basePlane.a * CellCenterProj(k)[1]
                                  + result.out.basePlane.b * CellCenterProj(k)[2]
                                  + result.out.basePlane.c

\* C26 holds on a raster without a projConverter: the base elevation is
\* evaluated at the cell's own longitude and latitude.
C26_GeographicBase ==
    (VolumeReturned /\ result.out.basePlane.kind = "tilted"
       /\ dem.projConverter = "none") =>
        \A k \in 1 .. Len(Cells) :
            Cells[k].counted =>
                Cells[k].base = result.out.basePlane.a * Cells[k].lon
                                  + result.out.basePlane.b * Cells[k].lat
                                  + result.out.basePlane.c

\* the edges of the outer ring that the eastward ray from the center of
\* Cells[k] crosses
CrossingEdges(k) ==
    LET ring == call.polygon.ring
    IN { e \in 1 .. Len(ring) :
           EdgeIntersects(Cells[k].lon, Cells[k].lat, ring[e],
                          ring[IF e = 1 THEN Len(ring) ELSE e - 1]) }

\* the even-odd rule
EvenOddInside(k) == Cardinality(CrossingEdges(k)) % 2 = 1

\* C27: the grid visits gridSize * gridSize cell centers, the one of (i, j)
\* at (minLon + lonStep * (i + 0.5), minLat + latStep * (j + 0.5)) and once
\* for every 0 <= i, j < gridSize; a center that the even-odd test puts
\* outside the outer ring is not sampled and leaves cut and fill as they
\* were: the raster is sampled once for each ring coordinate and once for
\* each center inside.  Without polygon.bbox no center is a coordinate and
\* none is sampled.
C27_GridVisits ==
    VolumeReturned =>
        LET g == call.gridSize
            bbox == call.polygon.bbox
        IN IF bbox = <<>>
           THEN /\ result.out.samples = Len(call.polygon.ring)
                /\ result.out.cut = 0 /\ result.out.fill = 0
           ELSE /\ Len(Cells) = g * g
                /\ \A i \in 0 .. g - 1, j \in 0 .. g - 1 :
                      Cardinality({ k \in 1 .. Len(Cells) :
                                      Cells[k].i = i /\ Cells[k].j = j }) = 1
                /\ \A k \in 1 .. Len(Cells) :
                      /\ 2 * g * (Cells[k].lon - bbox[1])
                            = (bbox[3] - bbox[1]) * (2 * Cells[k].i + 1)
                      /\ 2 * g * (Cells[k].lat - bbox[2])
                            = (bbox[4] - bbox[2]) * (2 * Cells[k].j + 1)
                      /\ Cells[k].inside = EvenOddInside(k)
                      /\ ~EvenOddInside(k) =>
                            /\ Cells[k].elevation.kind = "skip"
                            /\ ~Cells[k].counted
                            /\ Cells[k].cut = CutBefore(k)
                            /\ Cells[k].fill = FillBefore(k)
                /\ result.out.samples
                      = Len(call.polygon.ring)
                          + Cardinality({ k \in 1 .. Len(Cells) : EvenOddInside(k) })

\* C27 witness: a grid of four cells over a triangle, with a center outside
\* the ring left of two of its edges, after a cell that added to a sum.
C27_Witness ==
    /\ VolumeReturned /\ call.polygon.bbox # <<>> /\ Len(Cells) = 4
    /\ \E k \in 2 .. Len(Cells) :
          /\ Cardinality(CrossingEdges(k)) = 2
          /\ Cells[k].elevation.kind = "skip"
          /\ CutBefore(k) + FillBefore(k) > 0

----------------------------------------------------------------------------
(* Further claims about getElevationFromDem (sample) *)

\* the bbox of the raster has no width or no height
DegenerateBbox == dem.bbox[3] = dem.bbox[1] \/ dem.bbox[4] = dem.bbox[2]

\* the result of a sample call is the stored value of a cell of the raster
StoredCellValue ==
    LET t == result.trace
    IN /\ t.r.kind = "num"
       /\ t.px >= 0 /\ t.px < dem.width
       /\ t.py >= 0 /\ t.py < dem.height
       /\ t.index = t.py * dem.width + t.px
       /\ t.index >= 0 /\ t.index < dem.width * dem.height
       /\ t.r.v = dem.values[t.index + 1]

\* C28: on every raster with width, height >= 1, a degenerate bbox
\* included, a sample that is not NONE is the stored value of a cell with
\* 0 <= col < width and 0 <= row < height, and values is never read outside
\* [0, width * height).
C28_IndexSafety ==
    Sampled =>
        /\ result.trace.r # Null => StoredCellValue
        /\ ~result.trace.nan
        /\ result.trace.index >= -1 /\ result.trace.index < dem.width * dem.height

\* C28 holds on every raster whose bbox has a width and a height.
C28_IndexSafetyProperBbox ==
    (Sampled /\ ~DegenerateBbox) =>
        /\ result.trace.r # Null => StoredCellValue
        /\ ~result.trace.nan
        /\ result.trace.index >= -1 /\ result.trace.index < dem.width * dem.height

\* the case of C28_IndexSafetyProperBbox: a value read from the last cell of
\* a raster
C28_WitnessProperBbox ==
    /\ Sampled /\ ~DegenerateBbox /\ StoredCellValue
    /\ result.trace.index = dem.width * dem.height - 1

\* the query of a sample call passed the tests of lines 101 and 113
QueryInBounds == Sampled /\ ~QueryOutsideWgs84 /\ ~QueryOutsideBbox

OnWestEdge == QueryProj[1] = dem.bbox[1]

OnEastEdge == QueryProj[1] = dem.bbox[3]

OnSouthEdge == QueryProj[2] = dem.bbox[2]

OnNorthEdge == QueryProj[2] = dem.bbox[4]

\* C29: the tests against dem.bbox are inclusive on all four edges (a point
\* on an edge goes on to the cell indices), but a point on the eastern edge
\* gets col = width and one on the southern edge row = height, both NONE;
\* a point on the western edge gets column 0 and one on the northern edge
\* row 0, and these resolve to the cell's value.
C29_EdgeAsymmetry ==
    (QueryInBounds /\ ~DegenerateBbox) =>
        LET t == result.trace IN
        /\ (OnWestEdge \/ OnEastEdge \/ OnSouthEdge \/ OnNorthEdge) =>
              t.px >= 0 /\ t.py >= 0
        /\ OnEastEdge => t.px = dem.width /\ t.r = Null
        /\ OnSouthEdge => t.py = dem.height /\ t.r = Null
        /\ OnWestEdge => t.px = 0
        /\ OnNorthEdge => t.py = 0
        /\ ((OnWestEdge \/ OnNorthEdge) /\ ~OnEastEdge /\ ~OnSouthEdge) =>
              /\ t.index = t.py * dem.width + t.px
              /\ t.r = (IF StrictEq(Num(dem.values[t.index + 1]), dem.noDataValue)
                         THEN Null ELSE Num(dem.values[t.index + 1]))

\* C29 witness: a point on the eastern edge, inside the northern and the
\* southern one, is NONE with col = width.
C29_Witness ==
    /\ QueryInBounds /\ OnEastEdge /\ ~OnSouthEdge /\ ~OnNorthEdge
    /\ result.trace.px = dem.width /\ result.trace.r = Null

\* C29, the other side reached: a point on the western edge resolves to a
\* value of column 0, and one on the northern edge to a value of row 0.
C29_WitnessWest ==
    /\ QueryInBounds /\ OnWestEdge /\ OnNorthEdge
    /\ result.trace.index = 0 /\ result.trace.r.kind = "num"

\* C29, the southern edge reached on the projected raster
C29_WitnessSouth ==
    /\ QueryInBounds /\ OnSouthEdge /\ ~OnEastEdge /\ dem.projConverter # "none"
    /\ result.trace.py = dem.height /\ result.trace.r = Null

----------------------------------------------------------------------------
(* Monotonicity of the volumes in the base elevation *)

\* the call of the state repeated with the flat base elevation e
FlatVolume(e) ==
    GetVolumeFromDem(call.polygon, dem, "fixedElevation", Num(e), call.gridSize)

\* the call of the state repeated with the method averagePerimeter
AverageVolume ==
    GetVolumeFromDem(call.polygon, dem, "averagePerimeter", Undefined, call.gridSize)

\* the cells of a result that were added to a sum
CountedCells(out) == { k \in 1 .. Len(out.cells) : out.cells[k].counted }

\* base elevations to compare with: below, among and above the terrain
OtherElevations == {3, 6, 7, 50}

\* lo and hi are the results under the flat base elevations e1 <= e2
MonotoneInBase(lo, hi, e1, e2) ==
    /\ lo.ret = "result" /\ hi.ret = "result"
    /\ CountedCells(lo) = CountedCells(hi)
    /\ lo.fill >= hi.fill
    /\ lo.cut <= hi.cut
    /\ IF call.polygon.bbox = <<>>
       THEN CountedCells(lo) = {} /\ lo.net = hi.net
       ELSE lo.net - hi.net
              = (e2 - e1)
                  * GridGeometry(call.polygon.bbox, call.gridSize, dem).cellArea
                  * Cardinality(CountedCells(lo))

\* C30: for one polygon, raster and gridSize and two flat base elevations
\* e1 <= e2 the counted cells are the same, fill(e1) >= fill(e2),
\* cut(e1) <= cut(e2) and net(e1) - net(e2) = (e2 - e1) * cellArea * (number
\* of counted cells); fill under lowestPoint >= fill under averagePerimeter
\* and cut under lowestPoint <= cut under averagePerimeter.
C30_MonotoneInBase ==
    /\ (VolumeReturned /\ call.method = "fixedElevation") =>
          \A e \in OtherElevations :
              IF call.fixedElevation.v <= e
              THEN MonotoneInBase(result.out, FlatVolume(e), call.fixedElevation.v, e)
              ELSE MonotoneInBase(FlatVolume(e), result.out, e, call.fixedElevation.v)
    /\ (VolumeReturned /\ call.method = "lowestPoint") =>
          /\ AverageVolume.ret = "result"
          /\ result.out.basePlane.den > 0 /\ AverageVolume.basePlane.den > 0
          /\ CountedCells(result.out) = CountedCells(AverageVolume)
          /\ result.out.fill * AverageVolume.basePlane.den
                >= AverageVolume.fill * result.out.basePlane.den
          /\ result.out.cut * AverageVolume.basePlane.den
                <= AverageVolume.cut * result.out.basePlane.den

\* C30 witness: a base elevation among the terrain's, with cells above it,
\* and a higher one that turns fill into cut.
C30_Witness ==
    /\ VolumeReturned /\ call.method = "fixedElevation" /\ call.fixedElevation.v = 6
    /\ Cardinality(CountedCells(result.out)) >= 2
    /\ result.out.fill > FlatVolume(7).fill /\ FlatVolume(7).fill > 0
    /\ result.out.cut < FlatVolume(7).cut

\* C30, the two methods: a ring whose average is above its lowest point,
\* with strictly more fill and less cut under lowestPoint.
C30_WitnessMethods ==
    /\ VolumeReturned /\ call.method = "lowestPoint"
    /\ result.out.fill * AverageVolume.basePlane.den
          > AverageVolume.fill * result.out.basePlane.den
    /\ result.out.cut * AverageVolume.basePlane.den
          < AverageVolume.cut * result.out.basePlane.den

====
